---- MODULE Spec2Model ----
(***************************************************************************)
(* Model of the IngestaDev pipeline: the ETL service (etl_service.py:      *)
(* wait_for_catalogs, query_athena, save_to_mysql, main) and the ingest    *)
(* service (ingest_service3.py: scan, transform, save_to_s3, the Glue      *)
(* crawler create/start/wait, the table delete).  The AWS and MySQL        *)
(* services are external: each call's response is a nondeterministic       *)
(* choice among the responses the code distinguishes.                      *)
(***************************************************************************)
EXTENDS Integers, Sequences, FiniteSets, TLC

\* ---- bounds of the model -------------------------------------------------
\* number of source tables of the ETL run (the code lists five env entries)
NumTables == 3
\* data rows the query service may hold for one execution
MaxRows == 3
\* rows one get_query_results response page carries (header row included)
PageSize == 3

\* items one scan of the source table may return
MaxItems == 2
\* times ingest_service3.main is run one after the other
MaxRuns == 2
\* longest table name the environment may hold, in characters
MaxIdLen == 3

\* ---- program constants -----------------------------------------------------
\* wait_for_catalogs(glue_client, databases, retries=5, delay=10)
CatalogRetries == 5
\* wait_for_crawler(glue_client, crawler_name, retries=20, delay=60)
CrawlerRetries == 20

Tables == 1..NumTables

\* the table ingest_service3 handles (DYNAMODB_TABLE_3_DEV), the third entry
\* of the ETL service's list
IngestTable == 3

\* databases = [glue_database_<table>_DEV ...]: one schema per table, in order
glue_databases == [t \in Tables |-> t]

\* Athena query states; the last three end the poll loop (line 57)
TerminalStates == {"SUCCEEDED", "FAILED", "CANCELLED"}
QueryStates == {"QUEUED", "RUNNING"} \cup TerminalStates

\* StateChangeReason values the service may report; NoReason: the key is absent
Reasons == {"SYNTAX_ERROR"}
NoReason == "<absent>"

\* exceptions a boto3 call may raise
AwsErrors == {"ExpiredTokenException", "ClientError"}

NoErr == [kind |-> "none", status |-> "none", reason |-> "none"]
NoDf == [columns |-> <<>>, rows |-> <<>>]

\* ResultSetMetadata.ColumnInfo labels of the query result
MetaColumns == <<"c1", "c2">>

VARIABLES
    pc,             \* position of etl_service.main
    wcPass,         \* wait_for_catalogs: pass number (the for _ in range(retries))
    wcIdx,          \* wait_for_catalogs: index of the database checked next
    all_available,  \* wait_for_catalogs: the flag of the current pass
    wcSeen,         \* databases found present in the current pass
    wcMissed,       \* passes that observed a missing database
    wcSleeps,       \* time.sleep(delay) calls made by wait_for_catalogs
    wcResult,       \* "running" | "ok" (returned True) | "timeout" (raised)
    part,           \* index of the (glue_database, glue_table) pair of the loop
    status,         \* query_athena: status of the last get_query_execution
    qReason,        \* StateChangeReason of the last get_query_execution
    qWaited,        \* the poll loop of this execution slept at least once
    resRows,        \* data rows the service holds for the execution fetched
    df,             \* the DataFrame query_athena built
    submitted,      \* per table: start_query_execution calls
    fetches,        \* per table: get_query_results calls
    loadCalls,      \* per table: save_to_mysql calls
    loadState,      \* per table: outcome of save_to_mysql
    lRow,           \* save_to_mysql: index of the row df.iterrows() yields next
    err,            \* per table: kind of the exception main caught (line 136)
    caught,         \* the exception object e of the except clause (line 136)
    abortErr,       \* exception that left main uncaught
    \* ---- ingest_service3.main and the services it talks to
    ipc,            \* position of ingest_service3.main
    items,          \* the items scan_dynamodb_table returned
    objWritten,     \* the object store holds the file of this run
    crawler,        \* Glue: "absent" or the crawler's State
    tableDef,       \* Glue: the inferred table definition exists
    createResp,     \* what create_crawler answered
    startResp,      \* what start_crawler answered
    cwAttempt,      \* wait_for_crawler: the for _ in range(retries) counter
    cwPolls,        \* wait_for_crawler: get_crawler calls made
    cwSleeps,       \* wait_for_crawler: time.sleep(delay) calls made
    cwResult,       \* "none" | "ok" (returned True) | "timeout" (raised)
    deleteResp,     \* what delete_table answered
    iExit,          \* how ingest_service3.main ended
    runs,           \* number of the current run of ingest_service3.main
    prevExit,       \* how the run before the current one ended
    stmts,          \* save_to_mysql: the statements this call has issued
    sinkTx,         \* save_to_mysql: rows inserted in the open transaction
    sinkRows        \* save_to_mysql: rows this call has committed

etlVars == <<pc, wcPass, wcIdx, all_available, wcSeen, wcMissed, wcSleeps,
             wcResult, part, status, qReason, qWaited, resRows, df, submitted, fetches,
             loadCalls, loadState, lRow, err, caught, abortErr,
             stmts, sinkTx, sinkRows>>

loadVars == <<stmts, sinkTx, sinkRows>>

runVars == <<runs, prevExit>>

ingestVars == <<ipc, items, objWritten, createResp, startResp, cwAttempt,
                cwPolls, cwSleeps, cwResult, deleteResp, iExit, runVars>>

glueVars == <<crawler, tableDef>>

\* ---- the names etl_service.main derives (lines 114-123 and 133) ----------

VARIABLES
    dynamodb_tables,  \* the table names read from the environment (114-120)
    dbNames,          \* the list glue_databases of line 122
    glue_tables,      \* the list glue_tables of line 123
    table_names       \* the MySQL table names of line 133, one per iteration

resolverVars == <<dynamodb_tables, dbNames, glue_tables, table_names>>

vars == <<etlVars, ingestVars, glueVars, resolverVars>>

\* a string is the sequence of its characters
Chars == {"a", "_", "-"}

\* the non-empty table names of at most MaxIdLen characters
Ids == UNION {[1..n -> Chars] : n \in 1..MaxIdLen}

\* str.split(sep): the pieces between the occurrences of sep, empty ones
\* included
RECURSIVE Split(_, _)
Split(s, sep) ==
    IF \A i \in 1..Len(s) : s[i] # sep
    THEN <<s>>
    ELSE LET i == CHOOSE k \in 1..Len(s) :
                      s[k] = sep /\ \A j \in 1..(k - 1) : s[j] # sep
         IN  <<SubSeq(s, 1, i - 1)>> \o Split(SubSeq(s, i + 1, Len(s)), sep)

\* str.replace(old, new) for single characters
Replace(s, old, new) == [i \in 1..Len(s) |-> IF s[i] = old THEN new ELSE s[i]]

\* line 122: f"glue_database_{table}_DEV"
GlueDatabaseName(table) ==
    <<"g", "l", "u", "e", "_", "d", "a", "t", "a", "b", "a", "s", "e", "_">>
        \o table \o <<"_", "D", "E", "V">>

\* line 123: f"{table.replace('-', '_')}_csv"
GlueTableName(table) == Replace(table, "-", "_") \o <<"_", "c", "s", "v">>

\* line 133: f"summary_table_{glue_database.split('_')[2]}"
SinkTableName(glue_database) ==
    <<"s", "u", "m", "m", "a", "r", "y", "_", "t", "a", "b", "l", "e", "_">>
        \o Split(glue_database, "_")[3]

\* lines 114-120: any table names may be configured
ResolverInit ==
    /\ dynamodb_tables \in [Tables -> Ids]
    /\ dbNames = <<>>
    /\ glue_tables = <<>>
    /\ table_names = <<>>

\* the names of one configuration, for the runs whose subject is not the
\* names: table t is called "a" repeated t times
ResolverDone ==
    /\ dynamodb_tables = [t \in Tables |-> [i \in 1..t |-> "a"]]
    /\ dbNames = [t \in Tables |-> GlueDatabaseName(dynamodb_tables[t])]
    /\ glue_tables = [t \in Tables |-> GlueTableName(dynamodb_tables[t])]
    /\ table_names = <<>>

\* lines 122-123: the two list comprehensions
ResolveNames ==
    /\ dbNames = <<>>
    /\ dbNames' = [t \in Tables |-> GlueDatabaseName(dynamodb_tables[t])]
    /\ glue_tables' = [t \in Tables |-> GlueTableName(dynamodb_tables[t])]
    /\ UNCHANGED <<dynamodb_tables, table_names>>
    /\ UNCHANGED <<etlVars, ingestVars, glueVars>>

\* lines 128 and 133: the loop takes the next database name and derives the
\* MySQL table name from it
DeriveSinkName ==
    /\ dbNames # <<>>
    /\ Len(table_names) < Len(dbNames)
    /\ table_names' = Append(table_names, SinkTableName(dbNames[Len(table_names) + 1]))
    /\ UNCHANGED <<dynamodb_tables, dbNames, glue_tables>>
    /\ UNCHANGED <<etlVars, ingestVars, glueVars>>

NextResolver ==
    \/ ResolveNames
    \/ DeriveSinkName

\* state of etl_service.main when wait_for_catalogs is entered (line 126)
EtlInit ==
    /\ pc = "wc_check"
    /\ wcPass = 1
    /\ wcIdx = 1
    /\ all_available = TRUE
    /\ wcSeen = {}
    /\ wcMissed = 0
    /\ wcSleeps = 0
    /\ wcResult = "running"
    /\ part = 1
    /\ status = "NONE"
    /\ qReason = NoReason
    /\ qWaited = FALSE
    /\ resRows = 0
    /\ df = NoDf
    /\ submitted = [t \in Tables |-> 0]
    /\ fetches = [t \in Tables |-> 0]
    /\ loadCalls = [t \in Tables |-> 0]
    /\ loadState = [t \in Tables |-> "none"]
    /\ lRow = 1
    /\ err = [t \in Tables |-> "none"]
    /\ caught = NoErr
    /\ abortErr = "none"
    /\ stmts = <<>>
    /\ sinkTx = <<>>
    /\ sinkRows = <<>>

\* the fields transform_items reads (lines 54-60)
Fields == {"nombre", "passwordHash", "userID", "tenantID", "ultimoAcceso",
           "email", "fechaCreacion"}

\* a scanned item, given by the fields it has: complete, or lacking one
ItemShapes == {Fields, Fields \ {"email"}}

ItemLists == UNION {[1..n -> ItemShapes] : n \in 0..MaxItems}

\* state of ingest_service3.main when it is entered (line 116)
IngestInit ==
    /\ ipc = "config"
    /\ items = <<>>
    /\ objWritten = FALSE
    /\ createResp = "none"
    /\ startResp = "none"
    /\ cwAttempt = 0
    /\ cwPolls = 0
    /\ cwSleeps = 0
    /\ cwResult = "none"
    /\ deleteResp = "none"
    /\ iExit = "none"
    /\ runs = 1
    /\ prevExit = "none"

\* the Glue catalog as earlier runs left it: the crawler of line 123 and the
\* table of line 171 may or may not exist
GlueInit ==
    /\ crawler \in {"absent", "READY"}
    /\ tableDef \in BOOLEAN

\* a catalog no run has touched yet
GlueFresh ==
    /\ crawler = "absent"
    /\ tableDef = FALSE

Init == EtlInit /\ IngestInit /\ GlueFresh /\ ResolverDone

InitIngest == EtlInit /\ IngestInit /\ GlueInit /\ ResolverDone

InitResolver == EtlInit /\ IngestInit /\ GlueFresh /\ ResolverInit

\* ---- wait_for_catalogs ---------------------------------------------------

\* mutant: the missing database leaves the flag as it was
MissingMarksKept(flag) == flag

\* line 36: a missing database clears the flag of the pass
MissingMarks(flag) == FALSE

\* lines 30-37: one get_database call of the inner loop; found is the
\* service's answer (EntityNotFoundException when FALSE, then break)
GetDatabase ==
    /\ UNCHANGED loadVars
    /\ UNCHANGED resolverVars
    /\ UNCHANGED <<ingestVars, glueVars>>
    /\ pc = "wc_check"
    /\ \E found \in BOOLEAN :
        IF found
        THEN /\ wcSeen' = wcSeen \cup {glue_databases[wcIdx]}
             /\ all_available' = all_available
             /\ wcMissed' = wcMissed
             /\ IF wcIdx < NumTables
                THEN wcIdx' = wcIdx + 1 /\ pc' = "wc_check"
                ELSE wcIdx' = wcIdx /\ pc' = "wc_passend"
        ELSE /\ all_available' = MissingMarks(all_available)
             /\ wcMissed' = wcMissed + 1
             /\ pc' = "wc_passend"
             /\ UNCHANGED <<wcSeen, wcIdx>>
    /\ UNCHANGED <<wcPass, wcSleeps, wcResult, part, status, qReason, qWaited, resRows,
                   df, submitted, fetches, loadCalls, loadState, lRow, err, caught,
                   abortErr>>

\* lines 38-39: the pass found every database: return True; the locals of
\* wait_for_catalogs end with the call
CatalogsReturn ==
    /\ UNCHANGED loadVars
    /\ UNCHANGED resolverVars
    /\ UNCHANGED <<ingestVars, glueVars>>
    /\ pc = "wc_passend"
    /\ all_available
    /\ wcResult' = "ok"
    /\ pc' = "loop"
    /\ wcPass' = 0
    /\ wcIdx' = 0
    /\ wcSeen' = {}
    /\ wcMissed' = 0
    /\ wcSleeps' = 0
    /\ UNCHANGED <<all_available, part, status, qReason, qWaited, resRows, df,
                   submitted, fetches, loadCalls, loadState, lRow, err, caught,
                   abortErr>>

\* lines 40, 28-29, 41: sleep the delay, then the next pass, or raise when
\* the passes are used up; the exception is not caught in main (line 126)
CatalogsSleep ==
    /\ UNCHANGED loadVars
    /\ UNCHANGED resolverVars
    /\ UNCHANGED <<ingestVars, glueVars>>
    /\ pc = "wc_passend"
    /\ ~all_available
    /\ wcSleeps' = wcSleeps + 1
    /\ IF wcPass < CatalogRetries
       THEN /\ wcPass' = wcPass + 1
            /\ wcIdx' = 1
            /\ all_available' = TRUE
            /\ wcSeen' = {}
            /\ pc' = "wc_check"
            /\ UNCHANGED <<wcResult, abortErr>>
       ELSE /\ wcResult' = "timeout"
            /\ abortErr' = "SchemasUnavailable"
            /\ pc' = "aborted"
            /\ UNCHANGED <<wcPass, wcIdx, all_available, wcSeen>>
    /\ UNCHANGED <<wcMissed, part, status, qReason, qWaited, resRows, df, submitted,
                   fetches, loadCalls, loadState, lRow, err, caught>>

\* ---- main: the loop over the tables (lines 128-137) ------------------------

\* mutant: the handler lets the error end the run
MainExceptAborts(e) == "aborted"

\* lines 136-137: except Exception: the error is logged and the for loop
\* goes on with the next table
MainExcept(e) == "loop"

\* an exception e raised inside the try block of the current table
Caught(e) ==
    /\ err' = [err EXCEPT ![part] = e.kind]
    /\ caught' = e
    /\ part' = part + 1
    /\ pc' = MainExcept(e)

AwsError(kind) == [kind |-> kind, status |-> "none", reason |-> "none"]

\* line 128: the for statement takes the next pair, or the loop ends
LoopHead ==
    /\ UNCHANGED resolverVars
    /\ UNCHANGED <<ingestVars, glueVars>>
    /\ pc = "loop"
    /\ IF part <= NumTables THEN pc' = "q_submit" ELSE pc' = "done"
    /\ status' = "NONE"
    /\ qReason' = NoReason
    /\ qWaited' = FALSE
    /\ resRows' = 0
    /\ df' = NoDf
    /\ lRow' = 1
    /\ UNCHANGED <<wcPass, wcIdx, all_available, wcSeen, wcMissed, wcSleeps,
                   wcResult, part, submitted, fetches, loadCalls, loadState,
                   err, abortErr>>
    /\ caught' = NoErr
    /\ stmts' = <<>>
    /\ sinkTx' = <<>>
    /\ sinkRows' = <<>>

\* ---- query_athena (lines 43-74) --------------------------------------------

\* lines 46-51: start_query_execution; an exception is logged and re-raised
\* (lines 72-74) to main
QuerySubmit ==
    /\ UNCHANGED loadVars
    /\ UNCHANGED resolverVars
    /\ UNCHANGED <<ingestVars, glueVars>>
    /\ pc = "q_submit"
    /\ submitted' = [submitted EXCEPT ![part] = @ + 1]
    /\ \/ /\ pc' = "q_poll"
          /\ UNCHANGED <<err, caught, part>>
       \/ \E k \in AwsErrors : Caught(AwsError(k))
    /\ UNCHANGED <<wcPass, wcIdx, all_available, wcSeen, wcMissed, wcSleeps,
                   wcResult, status, qReason, qWaited, resRows, df, fetches, loadCalls,
                   loadState, lRow, abortErr>>

\* states the service may report after having reported s
LaterStates(s) ==
    IF s = "RUNNING" THEN QueryStates \ {"QUEUED"} ELSE QueryStates

\* line 57: the loop ends on a terminal state
PollEnds(s) == s \in TerminalStates

\* lines 55-58: one get_query_execution; the response carries the state and,
\* for a failed or cancelled execution, possibly a StateChangeReason
QueryPoll ==
    /\ UNCHANGED loadVars
    /\ UNCHANGED resolverVars
    /\ UNCHANGED <<ingestVars, glueVars>>
    /\ pc = "q_poll"
    /\ \/ \E s \in LaterStates(status) :
          \E r \in (IF s \in {"FAILED", "CANCELLED"}
                    THEN Reasons \cup {NoReason} ELSE {NoReason}) :
            /\ status' = s
            /\ qReason' = r
            /\ pc' = IF PollEnds(s) THEN "q_result" ELSE "q_sleep"
            /\ UNCHANGED <<err, caught, part>>
       \/ /\ \E k \in AwsErrors : Caught(AwsError(k))
          /\ UNCHANGED <<status, qReason>>
    /\ UNCHANGED <<wcPass, wcIdx, all_available, wcSeen, wcMissed, wcSleeps,
                   wcResult, qWaited, resRows, df, submitted, fetches, loadCalls,
                   loadState, lRow, abortErr>>

\* line 59: time.sleep(5), then the next poll; the loop has no retry count
QuerySleep ==
    /\ UNCHANGED loadVars
    /\ UNCHANGED resolverVars
    /\ UNCHANGED <<ingestVars, glueVars>>
    /\ pc = "q_sleep"
    /\ pc' = "q_poll"
    /\ qWaited' = TRUE
    /\ UNCHANGED <<wcPass, wcIdx, all_available, wcSeen, wcMissed, wcSleeps,
                   wcResult, part, status, qReason, resRows, df, submitted,
                   fetches, loadCalls, loadState, lRow, err, caught,
                   abortErr>>

Min(a, b) == IF a < b THEN a ELSE b

\* the rows of an execution's result as the service holds them: the header
\* row (0), then the data rows 1..n
ResultRows(n) == [i \in 1..(n + 1) |-> i - 1]

\* the first response page of get_query_results (no NextToken passed)
FirstPage(n) == SubSeq(ResultRows(n), 1, Min(PageSize, n + 1))

\* lines 62-66: rows = the Rows of the one response, the DataFrame takes
\* rows[1:] and the ColumnInfo labels
BuildFrame(n) == [columns |-> MetaColumns, rows |-> Tail(FirstPage(n))]

\* mutant: only FAILED is kept from the fetch
ShouldFetchUnlessFailed(s) == s # "FAILED"

\* line 61: results are fetched for SUCCEEDED only
ShouldFetch(s) == s = "SUCCEEDED"

\* lines 61-67: status SUCCEEDED: one get_query_results call
QueryFetch ==
    /\ UNCHANGED loadVars
    /\ UNCHANGED resolverVars
    /\ UNCHANGED <<ingestVars, glueVars>>
    /\ pc = "q_result"
    /\ ShouldFetch(status)
    /\ fetches' = [fetches EXCEPT ![part] = @ + 1]
    /\ \/ \E n \in 0..MaxRows :
            /\ resRows' = n
            /\ df' = BuildFrame(n)
            /\ pc' = "l_connect"
            /\ UNCHANGED <<err, caught, part>>
       \/ /\ \E k \in AwsErrors : Caught(AwsError(k))
          /\ UNCHANGED <<resRows, df>>
    /\ UNCHANGED <<wcPass, wcIdx, all_available, wcSeen, wcMissed, wcSleeps,
                   wcResult, status, qReason, qWaited, submitted, loadCalls, loadState,
                   lRow, abortErr>>

\* mutant: the reported reason is dropped for the default
FailureReasonDefaulted(r) == "Unknown reason"

\* line 69: .get('StateChangeReason', 'Unknown reason')
FailureReason(r) == IF r = NoReason THEN "Unknown reason" ELSE r

\* lines 68-71: FAILED or CANCELLED: raise with the status and the reason
QueryFailed ==
    /\ UNCHANGED loadVars
    /\ UNCHANGED resolverVars
    /\ UNCHANGED <<ingestVars, glueVars>>
    /\ pc = "q_result"
    /\ ~ShouldFetch(status)
    /\ Caught([kind |-> "QueryFailed", status |-> status,
               reason |-> FailureReason(qReason)])
    /\ UNCHANGED <<wcPass, wcIdx, all_available, wcSeen, wcMissed, wcSleeps,
                   wcResult, status, qReason, qWaited, resRows, df, submitted, fetches,
                   loadCalls, loadState, lRow, abortErr>>

\* ---- save_to_mysql (lines 76-104) ------------------------------------------

\* mutant: the handler commits what the call had inserted so far
CommittedOnErrorPartial(tx) == tx

\* lines 103-104: the handler only logs; no commit is issued, and what the
\* connection had inserted in its open transaction is not committed
CommittedOnError(tx) == <<>>

\* lines 103-104: a mysql.connector.Error is logged inside save_to_mysql,
\* which then returns normally; main goes on with the next table
SaveFails ==
    /\ loadState' = [loadState EXCEPT ![part] = "mysql_error"]
    /\ part' = part + 1
    /\ pc' = "loop"
    /\ sinkRows' = CommittedOnError(sinkTx)
    /\ sinkTx' = <<>>

\* lines 133-135 and 78-84: main calls save_to_mysql, which connects
SaveConnect ==
    /\ UNCHANGED resolverVars
    /\ UNCHANGED <<ingestVars, glueVars>>
    /\ pc = "l_connect"
    /\ loadCalls' = [loadCalls EXCEPT ![part] = @ + 1]
    /\ \/ pc' = "l_create" /\ UNCHANGED <<loadState, part, sinkTx, sinkRows>>
       \/ SaveFails
    /\ UNCHANGED <<wcPass, wcIdx, all_available, wcSeen, wcMissed, wcSleeps,
                   wcResult, status, qReason, qWaited, resRows, df, submitted, fetches,
                   lRow, err, caught, abortErr, stmts>>

\* line 87: one column of type TEXT per column of the DataFrame, in its order
CreateColumns(d) == d.columns

\* lines 87-90: CREATE TABLE IF NOT EXISTS
SaveCreate ==
    /\ UNCHANGED resolverVars
    /\ UNCHANGED <<ingestVars, glueVars>>
    /\ pc = "l_create"
    /\ stmts' = Append(stmts, [op |-> "create", arg |-> CreateColumns(df)])
    /\ \/ pc' = "l_insert" /\ UNCHANGED <<loadState, part, sinkTx, sinkRows>>
       \/ SaveFails
    /\ UNCHANGED <<wcPass, wcIdx, all_available, wcSeen, wcMissed, wcSleeps,
                   wcResult, status, qReason, qWaited, resRows, df, submitted, fetches,
                   loadCalls, lRow, err, caught, abortErr>>

\* mutant: the rows are taken last to first
RowAtReversed(d, i) == d.rows[Len(d.rows) + 1 - i]

\* line 93: df.iterrows() yields the rows in the order of the DataFrame
RowAt(d, i) == d.rows[i]

\* lines 93-97: one INSERT per row of the DataFrame
SaveInsert ==
    /\ UNCHANGED resolverVars
    /\ UNCHANGED <<ingestVars, glueVars>>
    /\ pc = "l_insert"
    /\ lRow <= Len(df.rows)
    /\ stmts' = Append(stmts, [op |-> "insert", arg |-> <<RowAt(df, lRow)>>])
    /\ \/ /\ lRow' = lRow + 1
          /\ sinkTx' = Append(sinkTx, RowAt(df, lRow))
          /\ UNCHANGED <<pc, loadState, part, sinkRows>>
       \/ SaveFails /\ UNCHANGED lRow
    /\ UNCHANGED <<wcPass, wcIdx, all_available, wcSeen, wcMissed, wcSleeps,
                   wcResult, status, qReason, qWaited, resRows, df, submitted, fetches,
                   loadCalls, err, caught, abortErr>>

\* lines 99-102: commit, close, return
SaveCommit ==
    /\ UNCHANGED resolverVars
    /\ UNCHANGED <<ingestVars, glueVars>>
    /\ pc = "l_insert"
    /\ lRow > Len(df.rows)
    /\ stmts' = Append(stmts, [op |-> "commit", arg |-> <<>>])
    /\ \/ /\ loadState' = [loadState EXCEPT ![part] = "saved"]
          /\ part' = part + 1
          /\ pc' = "loop"
          /\ sinkRows' = sinkTx
          /\ sinkTx' = <<>>
       \/ SaveFails
    /\ UNCHANGED <<wcPass, wcIdx, all_available, wcSeen, wcMissed, wcSleeps,
                   wcResult, status, qReason, qWaited, resRows, df, submitted, fetches,
                   loadCalls, lRow, err, caught, abortErr>>

\* ---- ingest_service3.main (lines 116-174) ----------------------------------

\* an exception nothing in main catches ends the process
Uncaught(e) == ipc' = "ended" /\ iExit' = e

\* lines 125-127: the table and bucket names are required
CheckConfig ==
    /\ UNCHANGED resolverVars
    /\ UNCHANGED runVars
    /\ ipc = "config"
    /\ \/ ipc' = "scan" /\ UNCHANGED iExit
       \/ ipc' = "ended" /\ iExit' = "config_missing"
    /\ UNCHANGED <<items, objWritten, createResp, startResp, cwAttempt,
                   cwPolls, cwSleeps, cwResult, deleteResp>>
    /\ UNCHANGED <<etlVars, glueVars>>

\* lines 132-141 and 37-47: the paginated scan; a ClientError ends main by
\* return, with the expired token told apart in the log only; any other
\* exception is not caught
ScanTable ==
    /\ UNCHANGED resolverVars
    /\ UNCHANGED runVars
    /\ ipc = "scan"
    /\ \/ \E l \in ItemLists : items' = l /\ ipc' = "transform" /\ UNCHANGED iExit
       \/ /\ \E e \in {"ExpiredTokenException", "ClientError"} :
                ipc' = "ended" /\ iExit' = e
          /\ UNCHANGED items
       \/ Uncaught("BotoCoreError") /\ UNCHANGED items
    /\ UNCHANGED <<objWritten, createResp, startResp, cwAttempt, cwPolls,
                   cwSleeps, cwResult, deleteResp>>
    /\ UNCHANGED <<etlVars, glueVars>>

\* lines 54-60: item[f]['S'] for every declared field f
HasAllFields(item) == Fields \subseteq item

\* lines 143-144 and 49-63: transform_items; a missing field raises KeyError
TransformItems ==
    /\ UNCHANGED resolverVars
    /\ UNCHANGED runVars
    /\ ipc = "transform"
    /\ IF \A i \in 1..Len(items) : HasAllFields(items[i])
       THEN ipc' = "save" /\ UNCHANGED iExit
       ELSE Uncaught("KeyError")
    /\ UNCHANGED <<items, objWritten, createResp, startResp, cwAttempt,
                   cwPolls, cwSleeps, cwResult, deleteResp>>
    /\ UNCHANGED <<etlVars, glueVars>>

\* lines 146-155 and 65-68: serialize and put_object; the item lists are
\* not read again after the upload
SaveToS3 ==
    /\ UNCHANGED resolverVars
    /\ UNCHANGED runVars
    /\ ipc = "save"
    /\ \/ objWritten' = TRUE /\ ipc' = "create" /\ UNCHANGED iExit
       \/ Uncaught("ClientError") /\ UNCHANGED objWritten
    /\ items' = <<>>
    /\ UNCHANGED <<createResp, startResp, cwAttempt, cwPolls,
                   cwSleeps, cwResult, deleteResp>>
    /\ UNCHANGED <<etlVars, glueVars>>

\* mutant: the already-exists answer leaves main as an error
OnAlreadyExistsRaises == "ended"

\* lines 86-87: AlreadyExistsException is logged as a warning;
\* create_glue_crawler returns and main goes on to start_glue_crawler
OnAlreadyExists == "start"

\* lines 162 and 70-87: create_crawler; AlreadyExistsException is logged as
\* a warning and swallowed, any other exception is not caught
CreateCrawler ==
    /\ UNCHANGED resolverVars
    /\ UNCHANGED runVars
    /\ ipc = "create"
    /\ \/ /\ crawler = "absent"
          /\ crawler' = "READY"
          /\ createResp' = "created"
          /\ ipc' = "start"
          /\ UNCHANGED iExit
       \/ /\ crawler # "absent"
          /\ createResp' = "AlreadyExistsException"
          /\ ipc' = OnAlreadyExists
          /\ IF ipc' = "ended" THEN iExit' = createResp' ELSE UNCHANGED iExit
          /\ UNCHANGED crawler
       \/ /\ createResp' = "ClientError"
          /\ Uncaught("ClientError")
          /\ UNCHANGED crawler
    /\ UNCHANGED <<items, objWritten, startResp, cwAttempt, cwPolls, cwSleeps,
                   cwResult, deleteResp, tableDef>>
    /\ UNCHANGED etlVars

\* lines 95-100: every exception of start_crawler is logged and swallowed;
\* start_glue_crawler returns and main goes on to wait_for_crawler
AfterStart(resp) == "wait"

\* lines 163 and 89-100: start_crawler
StartCrawler ==
    /\ UNCHANGED resolverVars
    /\ UNCHANGED runVars
    /\ ipc = "start"
    /\ \E resp \in {"started", "CrawlerRunningException",
                    "CrawlerNotFoundException", "ClientError"} :
        /\ resp = "started" => crawler = "READY"
        /\ resp = "CrawlerRunningException" => crawler \in {"RUNNING", "STOPPING"}
        /\ resp = "CrawlerNotFoundException" => crawler = "absent"
        /\ crawler' = IF resp = "started" THEN "RUNNING" ELSE crawler
        /\ startResp' = resp
        /\ ipc' = AfterStart(resp)
        /\ IF ipc' = "ended" THEN iExit' = resp ELSE UNCHANGED iExit
    /\ cwAttempt' = 1
    /\ UNCHANGED <<items, objWritten, createResp, cwPolls, cwSleeps, cwResult,
                   deleteResp, tableDef>>
    /\ UNCHANGED etlVars

\* what get_crawler may answer: the crawler's State, the not-found error
\* when there is no crawler, or another error of the call
CrawlerReplies ==
    (IF crawler = "absent" THEN {"EntityNotFoundException"} ELSE {crawler})
        \cup {"ClientError"}

PollErrors == {"EntityNotFoundException", "ClientError"}

\* mutant: a crawler that is stopping counts as done
IsReadyLoose(state) == state \in {"READY", "STOPPING"}

\* line 109: if state == 'READY'
IsReady(state) == state = "READY"

\* mutant: the error of a poll leaves wait_for_crawler
OnPollErrorRaises(e) == "ended"

\* lines 111-113: an exception of get_crawler is logged, the loop body goes
\* on to the sleep
OnPollError(e) == "wait_sleep"

\* lines 104-112: one get_crawler of the wait; READY returns True, any other
\* state and any exception (the crawler not found included) goes to the sleep
GetCrawler ==
    /\ UNCHANGED resolverVars
    /\ UNCHANGED runVars
    /\ ipc = "wait"
    /\ cwPolls' = cwPolls + 1
    /\ \E r \in CrawlerReplies :
        IF r \in PollErrors
        THEN /\ ipc' = OnPollError(r)
             /\ IF ipc' = "ended" THEN iExit' = r ELSE UNCHANGED iExit
             /\ UNCHANGED cwResult
        ELSE IF IsReady(r)
        THEN /\ cwResult' = "ok"
             /\ ipc' = "delete"
             /\ UNCHANGED iExit
        ELSE /\ ipc' = "wait_sleep"
             /\ UNCHANGED <<cwResult, iExit>>
    /\ UNCHANGED <<items, objWritten, createResp, startResp, cwAttempt,
                   cwSleeps, deleteResp>>
    /\ UNCHANGED <<etlVars, glueVars>>

\* mutant: main goes on to delete_table after the wait gave up
AfterTimeoutDeletes == "delete"

\* lines 114 and 167: the exception of wait_for_crawler is not caught by
\* main, which ends there; line 170 is not reached
AfterTimeout == "ended"

\* lines 113, 104 and 114: sleep the delay, then the next attempt, or raise
\* when the attempts are used up; main does not catch the exception
CrawlerSleep ==
    /\ UNCHANGED resolverVars
    /\ UNCHANGED runVars
    /\ ipc = "wait_sleep"
    /\ cwSleeps' = cwSleeps + 1
    /\ IF cwAttempt < CrawlerRetries
       THEN /\ cwAttempt' = cwAttempt + 1
            /\ ipc' = "wait"
            /\ UNCHANGED <<cwResult, iExit>>
       ELSE /\ cwResult' = "timeout"
            /\ ipc' = AfterTimeout
            /\ iExit' = IF ipc' = "ended" THEN "CrawlerTimeout" ELSE iExit
            /\ UNCHANGED cwAttempt
    /\ UNCHANGED <<items, objWritten, createResp, startResp, cwPolls,
                   deleteResp>>
    /\ UNCHANGED <<etlVars, glueVars>>

\* mutant: a missing table definition ends main with the error
OnDeleteMissingRaises == "EntityNotFoundException"

\* lines 173-174: EntityNotFoundException of delete_table is logged at info
\* level; main returns normally
OnDeleteMissing == "completed"

\* lines 169-174: delete_table; EntityNotFoundException is logged and
\* swallowed, any other exception is not caught
DeleteTable ==
    /\ UNCHANGED resolverVars
    /\ UNCHANGED runVars
    /\ ipc = "delete"
    /\ \/ /\ tableDef
          /\ tableDef' = FALSE
          /\ deleteResp' = "deleted"
          /\ ipc' = "ended" /\ iExit' = "completed"
       \/ /\ ~tableDef
          /\ deleteResp' = "EntityNotFoundException"
          /\ ipc' = "ended" /\ iExit' = OnDeleteMissing
          /\ UNCHANGED tableDef
       \/ /\ deleteResp' = "ClientError"
          /\ Uncaught("ClientError")
          /\ UNCHANGED tableDef
    /\ UNCHANGED <<items, objWritten, createResp, startResp, cwAttempt,
                   cwPolls, cwSleeps, cwResult, crawler>>
    /\ UNCHANGED etlVars

\* ---- the Glue service ------------------------------------------------------

\* a started crawler runs, stops and is READY again, having written the
\* table definition it inferred (the State that get_crawler reports, line 107)
CrawlerProgress ==
    /\ UNCHANGED resolverVars
    /\ \/ crawler = "RUNNING" /\ crawler' = "STOPPING" /\ UNCHANGED tableDef
       \/ crawler = "STOPPING" /\ crawler' = "READY" /\ tableDef' = TRUE
    /\ UNCHANGED <<etlVars, ingestVars>>

\* the crawler is gone from the catalog (the case of line 97); taken only
\* where the ingest service can still observe it
CrawlerRemoved ==
    /\ UNCHANGED resolverVars
    /\ crawler = "READY"
    /\ ipc \in {"start", "wait", "wait_sleep"}
    /\ crawler' = "absent"
    /\ UNCHANGED tableDef
    /\ UNCHANGED <<etlVars, ingestVars>>

NextIngest ==
    \/ CheckConfig
    \/ ScanTable
    \/ TransformItems
    \/ SaveToS3
    \/ CreateCrawler
    \/ StartCrawler
    \/ GetCrawler
    \/ CrawlerSleep
    \/ DeleteTable

NextGlue ==
    \/ CrawlerProgress
    \/ CrawlerRemoved

\* lines 175-176: the script is run again after a run has ended; the object store
\* and the Glue catalog are as that run left them
RunAgain ==
    /\ UNCHANGED resolverVars
    /\ ipc = "ended"
    /\ runs < MaxRuns
    /\ runs' = runs + 1
    /\ prevExit' = iExit
    /\ ipc' = "config"
    /\ items' = <<>>
    /\ createResp' = "none"
    /\ startResp' = "none"
    /\ cwAttempt' = 0
    /\ cwPolls' = 0
    /\ cwSleeps' = 0
    /\ cwResult' = "none"
    /\ deleteResp' = "none"
    /\ iExit' = "none"
    /\ UNCHANGED objWritten
    /\ UNCHANGED <<etlVars, glueVars>>

NextEtl ==
    \/ GetDatabase
    \/ CatalogsReturn
    \/ CatalogsSleep
    \/ LoopHead
    \/ QuerySubmit
    \/ QueryPoll
    \/ QuerySleep
    \/ QueryFetch
    \/ QueryFailed
    \/ SaveConnect
    \/ SaveCreate
    \/ SaveInsert
    \/ SaveCommit

\* the ETL service alone
Next == NextEtl

Spec == Init /\ [][Next]_vars

\* the ingest service alone, with the Glue service it drives
SpecIngest == InitIngest /\ [][NextIngest \/ NextGlue \/ RunAgain]_vars

\* both services of the pipeline: two processes with no synchronisation but
\* the Glue and Athena services they both talk to
NextPipeline == NextIngest \/ NextGlue \/ NextEtl

SpecPipeline == Init /\ [][NextPipeline]_vars

\* the ETL service with its steps taken as long as one is possible: main is
\* one sequential thread, every call returns or raises
FairSpec == Spec /\ WF_vars(Next)

\* the derivation of the names alone, over every configuration of table names
SpecResolver == InitResolver /\ [][NextResolver]_vars

\* ---- properties ----------------------------------------------------------

InLoad == pc \in {"l_connect", "l_create", "l_insert"}
AllDatabases == {glue_databases[t] : t \in Tables}

\* C1: an error raised while one table is processed does not end the run:
\* every table the loop is past was queried; one without an error was fetched
\* and handed to the loader, one whose query raised never reached the
\* loader; and the loop ends only after the last table.
C1_FailureIsolation ==
    /\ \A t \in Tables : t < part =>
          /\ submitted[t] = 1
          /\ (err[t] = "none" => fetches[t] = 1 /\ loadCalls[t] = 1)
          /\ (err[t] # "none" => loadCalls[t] = 0)
    /\ (\E t \in Tables : err[t] # "none") => pc # "aborted"
    /\ pc = "done" => part = NumTables + 1

C1_Witness ==
    /\ pc = "done"
    /\ \E t \in Tables :
          /\ err[t] # "none"
          /\ \A u \in Tables \ {t} : err[u] = "none" /\ loadState[u] = "saved"

\* C2: after an expired-credentials error no stage of a later table starts.
C2_CredentialsExpiredAborts ==
    \A t \in Tables : err[t] = "ExpiredTokenException" =>
        \A u \in Tables : u > t => submitted[u] = 0

\* the discovery job is started only after the object was written
C3_WriteBeforeStart == (createResp # "none" \/ startResp # "none") => objWritten

\* the query of a table is submitted only after its discovery job was
\* observed READY
C3_ReadyBeforeQuery == submitted[IngestTable] > 0 => cwResult = "ok"

\* results are fetched only after the status was SUCCEEDED
C3_SucceededBeforeFetch ==
    (pc \in {"q_submit", "q_poll", "q_sleep", "q_result", "l_connect",
             "l_create", "l_insert"} /\ fetches[part] > 0)
        => status = "SUCCEEDED"

\* the load starts only after the results were fetched
C3_FetchBeforeLoad == \A t \in Tables : loadCalls[t] > 0 => fetches[t] > 0

\* C3: within one table the stages run in order, each only after the stage
\* before it reached its state: write, then discovery start, discovery
\* READY, then query submission, SUCCEEDED, then fetch, then load.
C3_StageOrder ==
    /\ C3_WriteBeforeStart
    /\ C3_ReadyBeforeQuery
    /\ C3_SucceededBeforeFetch
    /\ C3_FetchBeforeLoad

\* C4: every wait of the ETL service (the catalog wait, the query-status
\* wait) eventually ends.
C4_WaitsEnd ==
    /\ [](pc \in {"wc_check", "wc_passend"} => <>(pc \notin {"wc_check", "wc_passend"}))
    /\ [](pc \in {"q_poll", "q_sleep"} => <>(pc \notin {"q_poll", "q_sleep"}))

\* wait_for_catalogs is about to return True (line 39)
ReportsSuccess == pc = "wc_passend" /\ all_available

\* C5: wait_for_catalogs returns True only in a pass that checked every
\* database and found it present; every earlier pass observed a missing
\* database and was followed by one sleep; a new pass starts with nothing
\* carried over and re-checks the databases from the first; a pass that
\* found every database reports success.
C5_SuccessOnlyOnFullPass ==
    /\ ReportsSuccess =>
          /\ wcSeen = AllDatabases
          /\ wcMissed = wcPass - 1
          /\ wcSleeps = wcMissed
    /\ wcResult = "ok" => pc \notin {"wc_check", "wc_passend", "aborted"}
    /\ pc = "wc_check" =>
          /\ wcSeen = {glue_databases[t] : t \in 1..(wcIdx - 1)}
          /\ wcMissed = wcPass - 1
          /\ wcSleeps = wcPass - 1
    /\ (pc = "wc_passend" /\ wcSeen = AllDatabases) => all_available
    /\ wcPass <= CatalogRetries

C5_Witness == ReportsSuccess /\ wcPass = 3 /\ wcSleeps = 2

\* C6: the exhausted catalog wait does not leave the run: the error is
\* handled and the tables whose database was seen are still queried.
C6_SchemasUnavailableLocal ==
    wcResult = "timeout" =>
        /\ abortErr # "SchemasUnavailable"
        /\ pc # "aborted"
        /\ (pc = "done" => \A t \in Tables :
                glue_databases[t] \in wcSeen => submitted[t] = 1)

\* C7: get_query_results is called at most once per execution, only after a
\* poll observed SUCCEEDED and never before; query_athena returns a frame
\* only after that one fetch; a FAILED or CANCELLED execution is not fetched.
C7_OneFetchAfterSucceeded ==
    /\ \A t \in Tables : fetches[t] <= 1
    /\ pc \in {"q_submit", "q_poll", "q_sleep", "q_result"} => fetches[part] = 0
    /\ InLoad => fetches[part] = 1 /\ status = "SUCCEEDED"
    /\ (pc = "loop" /\ part > 1 /\ fetches[part - 1] = 1) => status = "SUCCEEDED"
    /\ \A t \in Tables : err[t] = "QueryFailed" => fetches[t] = 0
    /\ caught.kind = "QueryFailed" => caught.status \in {"FAILED", "CANCELLED"}

C7_Witness == pc = "l_connect" /\ qWaited /\ fetches[part] = 1

\* the table whose try block has just been left
JustFailed ==
    /\ pc = "loop"
    /\ part > 1
    /\ err[part - 1] = "QueryFailed"
    /\ caught.kind = "QueryFailed"

\* C8 as stated: the error carries exactly what the service reported as the
\* reason, never a default.
C8_ReasonVerbatim == JustFailed => caught.reason = qReason

\* C8 amended: the error carries the status and the reported reason
\* unchanged when the service reported one, the text 'Unknown reason' when
\* the response had none; the query was submitted once.
C8_ReasonOrDefault ==
    JustFailed =>
        /\ caught.status = status
        /\ status \in {"FAILED", "CANCELLED"}
        /\ qReason \in Reasons => caught.reason = qReason
        /\ qReason = NoReason => caught.reason = "Unknown reason"
        /\ submitted[part - 1] = 1

C8_Witness == JustFailed /\ qReason \in Reasons /\ status = "CANCELLED"

\* C9: the frame query_athena returns has the metadata's column names and
\* every data row of the result, in order, whatever the number of pages.
C9_AllPagesFetched ==
    pc = "l_connect" =>
        /\ df.columns = MetaColumns
        /\ df.rows = [i \in 1..resRows |-> i]

\* C10: a start answered "not found" ends the operation with a hard error,
\* without a status poll and without success; a start answered "already
\* running" and a create answered "already exists" go on to the polling.
C10_NotFoundIsHardError ==
    /\ startResp = "CrawlerNotFoundException" =>
          /\ ipc = "ended"
          /\ iExit = "CrawlerNotFoundException"
          /\ cwPolls = 0
          /\ cwResult # "ok"
    /\ (startResp = "CrawlerRunningException" /\ cwPolls = 0) => ipc = "wait"
    /\ (createResp = "AlreadyExistsException" /\ startResp = "none")
          => ipc = "start"

\* C11: wait_for_crawler polls at most CrawlerRetries times with one sleep
\* between two polls; it returns True at the first poll that finds READY,
\* all earlier polls having been followed by the sleep; it raises only
\* after CrawlerRetries polls none of which returned True; it never returns
\* True unless the crawler is READY at that poll.
C11_BoundedCrawlerWait ==
    /\ cwPolls <= CrawlerRetries
    /\ cwAttempt <= CrawlerRetries
    /\ ipc = "wait" => cwPolls = cwAttempt - 1 /\ cwSleeps = cwPolls
    /\ ipc = "wait_sleep" => cwPolls = cwAttempt /\ cwSleeps = cwPolls - 1
    /\ cwResult = "ok" =>
          /\ crawler = "READY"
          /\ cwPolls = cwAttempt
          /\ cwSleeps = cwPolls - 1
    /\ cwResult = "timeout" =>
          /\ cwPolls = CrawlerRetries
          /\ cwSleeps = CrawlerRetries
          /\ iExit = "CrawlerTimeout"
    /\ ipc = "delete" => cwResult = "ok"

C11_Witness == cwResult = "ok" /\ cwPolls = 3 /\ startResp = "started"

\* the current call found the crawler already there
OnExistingJob == createResp = "AlreadyExistsException"

C13_ForceRebuildIdempotent ==
    /\ deleteResp = "EntityNotFoundException" =>
          /\ ipc = "ended"
          /\ iExit = "completed"
          /\ ~tableDef
    /\ deleteResp = "deleted" =>
          /\ ipc = "ended"
          /\ iExit = "completed"
          /\ ~tableDef

C13_Witness ==
    /\ deleteResp = "EntityNotFoundException"
    /\ iExit = "completed"
    /\ cwResult = "ok"

\* C14: when a statement of save_to_mysql fails, the call signals the failure
\* to main: main's except clause records an error for that table.
C14_SinkErrorSignalled ==
    \A t \in Tables : loadState[t] = "mysql_error" => err[t] # "none"

\* the names of all tables are derived
Resolved == dbNames # <<>> /\ Len(table_names) = NumTables

\* C15: one name of each kind is derived per table, and two tables with
\* different names get different Glue database names, different Glue table
\* names and different MySQL table names, also when a name holds a '_'.
C15_CollisionFree ==
    Resolved =>
        /\ Len(dbNames) = NumTables
        /\ Len(glue_tables) = NumTables
        /\ \A i, j \in Tables :
              dynamodb_tables[i] # dynamodb_tables[j] =>
                  /\ dbNames[i] # dbNames[j]
                  /\ glue_tables[i] # glue_tables[j]
                  /\ table_names[i] # table_names[j]

\* C16: transform_items does not fail on an item that lacks a declared
\* field: no run of main ends with the KeyError of a missing field.
C16_FlattenNeverFails == ~(ipc = "ended" /\ iExit = "KeyError")

\* the call of save_to_mysql for the table before `part` has just returned
LoadReturned(outcome) ==
    pc = "loop" /\ part > 1 /\ loadState[part - 1] = outcome

\* C17: the statements of one save_to_mysql call are, in this order: one
\* CREATE TABLE IF NOT EXISTS whose columns are the DataFrame's columns in
\* their order, then one INSERT per row in the DataFrame's row order, then
\* the commit; a call that returned normally after its commit has issued all
\* of them, and nothing is issued before the connection is made.
C17_StatementOrder ==
    /\ pc \in {"l_connect", "l_create"} => stmts = <<>>
    /\ pc = "l_insert" => Len(stmts) = lRow
    /\ Len(stmts) <= Len(df.rows) + 2
    /\ \A k \in 1..Len(stmts) :
          IF k = 1
          THEN stmts[k].op = "create" /\ stmts[k].arg = df.columns
          ELSE IF k <= Len(df.rows) + 1
          THEN stmts[k].op = "insert" /\ stmts[k].arg = <<df.rows[k - 1]>>
          ELSE stmts[k].op = "commit"
    /\ LoadReturned("saved") => Len(stmts) = Len(df.rows) + 2

C17_Witness ==
    /\ LoadReturned("saved")
    /\ Len(df.rows) = 2
    /\ Len(stmts) = 4
    /\ stmts[2].arg # stmts[3].arg

\* C18: save_to_mysql commits all or nothing: while the call runs nothing of
\* it is committed and the open transaction holds the rows inserted so far;
\* a commit is issued only as the statement after the last row's INSERT; a
\* call that ended in the error handler has committed no row, whatever it
\* had inserted; a call that returned after its commit has committed exactly
\* the rows of the DataFrame.
C18_CommitAllOrNothing ==
    /\ pc \in {"l_connect", "l_create", "l_insert"} => sinkRows = <<>>
    /\ pc = "l_insert" => sinkTx = SubSeq(df.rows, 1, lRow - 1)
    /\ \A k \in 1..Len(stmts) :
          stmts[k].op = "commit" =>
              /\ k = Len(df.rows) + 2
              /\ \A j \in 2..(k - 1) : stmts[j].op = "insert"
    /\ LoadReturned("mysql_error") => sinkRows = <<>>
    /\ LoadReturned("saved") => sinkRows = df.rows
    /\ sinkRows \in {<<>>, df.rows}

C18_Witness ==
    /\ LoadReturned("mysql_error")
    /\ Len(stmts) = 3
    /\ stmts[3].op = "insert"
    /\ sinkRows = <<>>

\* C19: delete_table is called only after wait_for_crawler returned True: not
\* in a run that ended at the scan or before the crawler was created, and
\* not in a run whose wait timed out; so after every completed run the
\* inferred table definition is absent from the catalog.
C19_DeleteOnlyAfterReady ==
    /\ ipc = "delete" => cwResult = "ok"
    /\ deleteResp # "none" => cwResult = "ok"
    /\ createResp = "none" => deleteResp = "none"
    /\ cwResult = "timeout" => deleteResp = "none" /\ ipc = "ended"
    /\ iExit \in {"ExpiredTokenException", "BotoCoreError", "CrawlerTimeout"}
          => deleteResp = "none"
    /\ iExit = "completed" =>
          /\ deleteResp \in {"deleted", "EntityNotFoundException"}
          /\ ~tableDef

C19_Witness ==
    /\ iExit = "completed"
    /\ deleteResp = "deleted"
    /\ startResp = "started"
    /\ cwPolls >= 2
    /\ ~tableDef

\* a poll of wait_for_crawler while there is no crawler: whatever get_crawler
\* answers is an error
ErrorPoll == ipc = "wait" /\ crawler = "absent" /\ ipc' # ipc

\* the poll that errored used one attempt, neither ended the wait nor made
\* it return, and the sleep is next
ErrorPollCounted ==
    ErrorPoll =>
        /\ ipc' = "wait_sleep"
        /\ cwPolls' = cwPolls + 1
        /\ cwAttempt' = cwAttempt
        /\ cwSleeps' = cwSleeps
        /\ cwResult' = cwResult
        /\ iExit' = iExit

\* after a poll that did not see READY the delay is slept once, then the
\* next attempt is made or, the attempts used up, the wait times out
SleepFollows ==
    (ipc = "wait_sleep" /\ ipc' # ipc) =>
        /\ cwSleeps' = cwSleeps + 1
        /\ cwPolls' = cwPolls
        /\ IF cwAttempt < CrawlerRetries
           THEN ipc' = "wait" /\ cwAttempt' = cwAttempt + 1 /\ cwResult' = cwResult
           ELSE ipc' = "ended" /\ cwResult' = "timeout" /\ iExit' = "CrawlerTimeout"

\* a wait all of whose polls errored: the crawler was already missing when
\* it was started
AllPollsErrored == startResp = "CrawlerNotFoundException" /\ ipc = "ended"

\* C20: an error of get_crawler during wait_for_crawler, the not-found error
\* included, counts as one attempt without READY: it is followed by the sleep
\* and the next attempt, never ends the wait and never makes it return True;
\* a wait in which every poll errored ends in the timeout after exactly
\* CrawlerRetries polls and as many sleeps.
C20_PollErrorIsNotReady ==
    /\ [][ErrorPollCounted /\ SleepFollows]_vars
    /\ [](cwResult = "ok" => crawler = "READY")
    /\ [](AllPollsErrored =>
            /\ cwResult = "timeout"
            /\ iExit = "CrawlerTimeout"
            /\ cwPolls = CrawlerRetries
            /\ cwSleeps = CrawlerRetries)

C20_Witness ==
    /\ AllPollsErrored
    /\ cwResult = "timeout"
    /\ cwPolls = CrawlerRetries
====
